---- MODULE Spec2Model ----
(***************************************************************************)
(* Model of src/api/v2/types.rs: the WebSocket subscriber registry         *)
(* (WsClients) with its topic-filtered publish, and the request/response   *)
(* and error types of the v2 API.                                          *)
(***************************************************************************)
EXTENDS Naturals, Sequences, FiniteSets, TLC

\* ------------------------------------------------------------------ bounds
\* Number of distinct subscription ids the callers use.
MaxIds == 2
\* Number of delivery channels (mpsc::unbounded_channel) ever created.
MaxChan == 2
\* Cap on the length of a channel's queue (the channel itself is unbounded).
MaxQueue == 2

\* Number of inbound requests read from one connection.
MaxReq == 2

\* ------------------------------------------------------------- data types
Ids == 1..MaxIds

\* enum Topic
Topics == {"header-verified", "confidence-achieved", "data-verified"}

\* enum DataField
DataFields == {"data", "extrinsic"}

\* struct Subscription: the subscriptions the callers register.
Subscriptions ==
    { [topics |-> {"header-verified"}, data_fields |-> {"data"}],
      [topics |-> {"header-verified", "confidence-achieved"}, data_fields |-> {"extrinsic"}] }

\* Option::None for WsClient.sender
None == 0

\* enum PublishMessage: HeaderVerified(HeaderMessage).  `encodable` is whether
\* serde_json::to_string succeeds on the value.
PublishMessages ==
    { [type |-> "header-verified", block_number |-> 42, encodable |-> e] :
        e \in BOOLEAN }

SerializeError == [error |-> "Cannot serialize publish message"]

\* TryFrom<PublishMessage> for Message: the JSON text frame, or the error.
try_into(message) ==
    IF message.encodable
    THEN [text |-> <<"type", message.type, "message", "block_number", message.block_number>>]
    ELSE SerializeError

\* WsClient::new
WsClient_new(subscription) ==
    [subscription |-> subscription, sender |-> None]

\* is_subscribed testing for any subscription at all instead of the topic.
is_subscribed_any(client, topic) ==
    client.subscription.topics # {}

\* WsClient::is_subscribed
is_subscribed(client, topic) ==
    topic \in client.subscription.topics

\* A send that puts the frame at the front of the queue.
send_front(ch, s, frame) ==
    IF ch[s].open
    THEN [chans |-> [ch EXCEPT ![s].queue = <<frame>> \o @], ret |-> "Ok"]
    ELSE [chans |-> ch, ret |-> "SendError"]

\* UnboundedSender::send on channel s: the frame is queued unless the
\* receiver is closed or dropped, in which case the send fails.
send(ch, s, frame) ==
    IF ch[s].open
    THEN [chans |-> [ch EXCEPT ![s].queue = Append(@, frame)], ret |-> "Ok"]
    ELSE [chans |-> ch, ret |-> "SendError"]

\* set_sender inserting a default entry for an unknown id (entry().or_default()).
set_sender_upsert(cl, subscription_id, sender) ==
    [clients |-> [x \in DOMAIN cl \cup {subscription_id} |->
                    [subscription |-> IF x \in DOMAIN cl THEN cl[x].subscription
                                      ELSE [topics |-> {}, data_fields |-> {}],
                     sender |-> IF x = subscription_id THEN sender ELSE cl[x].sender]],
     ret |-> TRUE]

\* set_sender storing the sender in every entry (values_mut) once the id is known.
set_sender_all(cl, subscription_id, sender) ==
    IF subscription_id \notin DOMAIN cl
    THEN [clients |-> cl, ret |-> FALSE]
    ELSE [clients |-> [x \in DOMAIN cl |-> [cl[x] EXCEPT !.sender = sender]],
          ret |-> TRUE]

\* set_sender replacing the entry by a new client that holds the sender
\* (WsClient::default with the sender set).
set_sender_reset(cl, subscription_id, sender) ==
    IF subscription_id \notin DOMAIN cl
    THEN [clients |-> cl, ret |-> FALSE]
    ELSE [clients |-> [cl EXCEPT ![subscription_id] =
                          [subscription |-> [topics |-> {}, data_fields |-> {}],
                           sender |-> sender]],
          ret |-> TRUE]

\* WsClients::set_sender
set_sender(cl, subscription_id, sender) ==
    IF subscription_id \notin DOMAIN cl
    THEN [clients |-> cl, ret |-> FALSE]
    ELSE [clients |-> [cl EXCEPT ![subscription_id].sender = sender], ret |-> TRUE]

\* WsClients::has_subscription
has_subscription(cl, subscription_id) ==
    subscription_id \in DOMAIN cl

\* subscribe keeping an entry that is already there (entry().or_insert()).
subscribe_keep(cl, subscription_id, subscription) ==
    [x \in DOMAIN cl \cup {subscription_id} |->
        IF x \in DOMAIN cl THEN cl[x] ELSE WsClient_new(subscription)]

\* subscribe building a new map holding the one entry.
subscribe_only(cl, subscription_id, subscription) ==
    [x \in {subscription_id} |-> WsClient_new(subscription)]

\* WsClients::subscribe (HashMap::insert)
subscribe(cl, subscription_id, subscription) ==
    [x \in DOMAIN cl \cup {subscription_id} |->
        IF x = subscription_id THEN WsClient_new(subscription) ELSE cl[x]]

\* The orders in which HashMap::iter may visit the keys S.
Orders(S) ==
    { o \in [1..Cardinality(S) -> S] : \A i, j \in DOMAIN o : i # j => o[i] # o[j] }

\* publish propagating a failed send with `?` instead of discarding it.
RECURSIVE publish_abort(_, _, _, _, _)
publish_abort(cl, ch, order, topic, message) ==
    IF order = <<>>
    THEN [chans |-> ch, ret |-> "Ok"]
    ELSE LET client == cl[Head(order)]
         IN  IF ~(topic \in client.subscription.topics)
             THEN publish_abort(cl, ch, Tail(order), topic, message)
             ELSE LET frame == try_into(message)
                  IN  IF frame = SerializeError
                      THEN [chans |-> ch, ret |-> "Err"]
                      ELSE IF client.sender # None
                           THEN LET r == send(ch, client.sender, frame)
                                IN  IF r.ret = "SendError"
                                    THEN [chans |-> ch, ret |-> "Err"]
                                    ELSE publish_abort(cl, r.chans, Tail(order),
                                                       topic, message)
                           ELSE publish_abort(cl, ch, Tail(order), topic, message)

\* publish serializing the message once, before the loop.
RECURSIVE publish_hoisted(_, _, _, _, _)
publish_hoisted(cl, ch, order, topic, message) ==
    IF try_into(message) = SerializeError
    THEN [chans |-> ch, ret |-> "Err"]
    ELSE IF order = <<>>
    THEN [chans |-> ch, ret |-> "Ok"]
    ELSE LET client == cl[Head(order)]
         IN  IF topic \in client.subscription.topics /\ client.sender # None
             THEN publish_hoisted(cl, send(ch, client.sender, try_into(message)).chans,
                                  Tail(order), topic, message)
             ELSE publish_hoisted(cl, ch, Tail(order), topic, message)

\* publish failing on a subscribed client that has no sender
\* (sender.as_ref().ok_or(..)?).
RECURSIVE publish_need_sender(_, _, _, _, _)
publish_need_sender(cl, ch, order, topic, message) ==
    IF order = <<>>
    THEN [chans |-> ch, ret |-> "Ok"]
    ELSE LET client == cl[Head(order)]
         IN  IF ~(topic \in client.subscription.topics)
             THEN publish_need_sender(cl, ch, Tail(order), topic, message)
             ELSE LET frame == try_into(message)
                  IN  IF frame = SerializeError \/ client.sender = None
                      THEN [chans |-> ch, ret |-> "Err"]
                      ELSE publish_need_sender(cl, send(ch, client.sender, frame).chans,
                                               Tail(order), topic, message)

\* WsClients::publish: the loop over clients.iter(), visiting keys in `order`.
RECURSIVE publish(_, _, _, _, _)
publish(cl, ch, order, topic, message) ==
    IF order = <<>>
    THEN [chans |-> ch, ret |-> "Ok"]
    ELSE LET client == cl[Head(order)]
         IN  IF ~is_subscribed(client, topic)
             THEN publish(cl, ch, Tail(order), topic, message)
             ELSE LET frame == try_into(message)
                  IN  IF frame = SerializeError
                      THEN [chans |-> ch, ret |-> "Err"]
                      ELSE IF client.sender # None
                           THEN publish(cl, send(ch, client.sender, frame).chans,
                                        Tail(order), topic, message)
                           ELSE publish(cl, ch, Tail(order), topic, message)

\* -------------------------------------------------- request/response types
\* Uuid values of request_id.
Uuids == {"uuid-1", "uuid-2"}

\* A JSON field that is absent.
Absent == "absent"

\* Base64 texts of a transaction: empty, one byte, and two undecodable ones.
Base64Texts == {"", "AQ==", "AQ=", "!"}

\* Result::Ok and Result::Err
Ok(value) == [ok |-> TRUE, value |-> value]
Err(error) == [ok |-> FALSE, value |-> error]

\* TryFrom<String> for Base64 (general_purpose::STANDARD.decode).
Base64_try_from(value) ==
    CASE value = "" -> Ok(<<>>)
      [] value = "AQ==" -> Ok(<<1>>)
      [] OTHER -> Err("DecodeError")

\* The transaction objects a client may send: { type, message }.
RawTransactions ==
    [type : {"data", "extrinsic"}, message : Base64Texts]

\* The message field left out.
AbsentMessage == [type |-> Absent, message |-> ""]

\* Inbound ws::Message: bytes that are not JSON, or a JSON object with the
\* fields type, message and request_id (each possibly absent or wrong).
RawMessages ==
    { [json |-> FALSE, type |-> Absent, message |-> AbsentMessage,
       request_id |-> Absent] }
    \cup [json : {TRUE}, type : {"version", "status", "bogus"},
          message : {AbsentMessage}, request_id : Uuids \cup {Absent}]
    \cup [json : {TRUE}, type : {"submit"},
          message : RawTransactions \cup {AbsentMessage},
          request_id : Uuids \cup {Absent}]

ParseError == Err("Cannot parse json")

\* Deserialize for Transaction: the kebab-case tag and the Base64 payload.
Transaction_deserialize(raw) ==
    IF raw.type \notin {"data", "extrinsic"}
    THEN ParseError
    ELSE LET bytes == Base64_try_from(raw.message)
         IN  IF ~bytes.ok
             THEN ParseError
             ELSE Ok([variant |-> IF raw.type = "data" THEN "Data" ELSE "Extrinsic",
                      bytes |-> bytes.value])

\* TryFrom<ws::Message> for Request: serde_json::from_slice into
\* Request { payload: Payload (tag "type", content "message"), request_id }.
Request_try_from(value) ==
    IF ~value.json \/ value.request_id \notin Uuids
    THEN ParseError
    ELSE CASE value.type = "version" ->
                Ok([payload |-> [variant |-> "Version"],
                    request_id |-> value.request_id])
           [] value.type = "status" ->
                Ok([payload |-> [variant |-> "Status"],
                    request_id |-> value.request_id])
           [] value.type = "submit" ->
                LET tx == Transaction_deserialize(value.message)
                IN  IF ~tx.ok
                    THEN ParseError
                    ELSE Ok([payload |-> [variant |-> "Submit",
                                          transaction |-> tx.value],
                             request_id |-> value.request_id])
           [] OTHER -> ParseError

\* Transaction::is_empty checking the Data variant only.
is_empty_data_only(transaction) ==
    transaction.variant = "Data" /\ Len(transaction.bytes) = 0

\* Transaction::is_empty
is_empty(transaction) ==
    CASE transaction.variant = "Data" -> Len(transaction.bytes) = 0
      [] transaction.variant = "Extrinsic" -> Len(transaction.bytes) = 0

\* Response::new
Response_new(request_id, message) ==
    [request_id |-> request_id, message |-> message]

\* Error::new
Error_new(request_id, cause, error_code, message) ==
    [request_id |-> request_id, cause |-> cause, error_code |-> error_code,
     message |-> message]

\* Option::None of Error.request_id and Error.cause
NoValue == "none"

\* Error::not_found
not_found == Error_new(NoValue, NoValue, "not-found", "Not Found")

\* Error::internal_server_error
internal_server_error(cause) ==
    Error_new(NoValue, cause, "internal-server-error", "Internal Server Error")

\* Error::bad_request_unknown
bad_request_unknown(message) ==
    Error_new(NoValue, NoValue, "bad-request", message)

\* Error::bad_request
bad_request(request_id, message) ==
    Error_new(request_id, NoValue, "bad-request", message)

\* enum WsResponse: the tagged response handed to transport.
WsResponse(topic, response) ==
    [kind |-> "Response", topic |-> topic, body |-> response]

\* enum WsError: the tagged error handed to transport.
WsError(error) ==
    [kind |-> "Error", topic |-> "error", body |-> error]

\* Serialization of an Error that writes the cause as well.
Error_to_string_with_cause(error) ==
    (IF error.request_id = NoValue THEN <<>>
     ELSE << <<"request_id", error.request_id>> >>)
    \o << <<"cause", error.cause>>,
          <<"error_code", error.error_code>>, <<"message", error.message>> >>

\* From<Error> for String: the JSON object of an Error, as its fields in
\* order.  request_id is skipped when None, cause is always skipped.
Error_to_string(error) ==
    (IF error.request_id = NoValue THEN <<>>
     ELSE << <<"request_id", error.request_id>> >>)
    \o << <<"error_code", error.error_code>>, <<"message", error.message>> >>

\* Serialize for Response<T>
Response_to_string(response) ==
    << <<"request_id", response.request_id>>, <<"message", response.message>> >>

\* Serialize for WsResponse and WsError: the topic tag, then the fields of
\* the variant's content.
Ws_to_string(ws) ==
    << <<"topic", ws.topic>> >>
    \o (IF ws.kind = "Error" THEN Error_to_string(ws.body)
        ELSE Response_to_string(ws.body))

\* The causes a failing submit reports.
Causes == {"connection lost", "extrinsic rejected"}

\* The results of the external submit handler.
SubmitResults ==
    { Ok("submitted") } \cup { Err(cause) : cause \in Causes }

\* The handler answering a decoded request both with its response and with
\* an error.
handle_request_twice(request, result) ==
    [submitted |-> FALSE,
     out |-> << WsResponse("version", Response_new(request.request_id, "version")),
                WsError(internal_server_error(result.value)) >>]

\* Dispatch of a decoded request on its payload; result is what the external
\* submit handler returns if it is run.  Yields what is handed to transport
\* and whether the submit handler ran.
handle_request(request, result) ==
    CASE request.payload.variant = "Version" ->
            [submitted |-> FALSE,
             out |-> << WsResponse("version",
                                   Response_new(request.request_id, "version")) >>]
      [] request.payload.variant = "Status" ->
            [submitted |-> FALSE,
             out |-> << WsResponse("status",
                                   Response_new(request.request_id, "status")) >>]
      [] request.payload.variant = "Submit" ->
            IF is_empty(request.payload.transaction)
            THEN [submitted |-> FALSE,
                  out |-> << WsError(bad_request(request.request_id,
                                                 "Transaction is empty.")) >>]
            ELSE IF result.ok
            THEN [submitted |-> TRUE,
                  out |-> << WsResponse("data-transaction-submitted",
                                        Response_new(request.request_id, result.value)) >>]
            ELSE [submitted |-> TRUE,
                  out |-> << WsError(internal_server_error(result.value)) >>]

\* ------------------------------------------------------------------ state
VARIABLES
    clients,    \* WsClients.0: subscription id -> WsClient
    chans,      \* the channels created so far: queue and receiver state
    last,       \* the last call: operation, arguments, result, and the
                \* registry and channels as they were when it was made
    inbound,    \* the inbound messages read so far, in order
    request,    \* the decoded Request being handled
    stages,     \* the stages the current request has gone through
    submitted,  \* the requests (by position) given to the submit handler
    transport,  \* what was handed to transport: request position and output
    pure,       \* the last conversion applied: function, input and output
    calls       \* the registry calls started by concurrent tasks, in order

regvars == <<clients, chans, last>>
reqvars == <<inbound, request, stages, submitted, transport>>
purevars == <<pure>>
concvars == <<calls>>
vars == <<regvars, reqvars, purevars, concvars>>

\* No conversion has been applied yet.
NoConversion == [fn |-> "none", arg |-> <<>>, result |-> <<>>]

NoCall ==
    [op |-> "none", id |-> 0, sub |-> None, sender |-> None, topic |-> "",
     msg |-> None, ret |-> None, clients |-> <<>>, chans |-> <<>>]

\* A call made in the current state.
Call(op) == [NoCall EXCEPT !.op = op, !.clients = clients, !.chans = chans]

\* No call is being looked at: the next one may be made.
Idle == last.op = "none"

Init ==
    /\ clients = <<>>
    /\ chans = <<>>
    /\ last = NoCall
    /\ inbound = <<>>
    /\ request = <<>>
    /\ stages = <<>>
    /\ submitted = {}
    /\ transport = <<>>
    /\ pure = NoConversion
    /\ calls = <<>>

\* A client opens its delivery channel: a fresh channel is created and its
\* sender handed to set_sender; on failure the channel is dropped.
SetSender(id) ==
    /\ Idle
    /\ Len(chans) < MaxChan
    /\ LET sender == Len(chans) + 1
           r == set_sender(clients, id, sender)
       IN  /\ clients' = r.clients
           /\ chans' = IF r.ret
                       THEN Append(chans, [queue |-> <<>>, open |-> TRUE])
                       ELSE chans
           /\ last' = [Call("set_sender") EXCEPT !.id = id, !.sender = sender,
                                                 !.ret = r.ret]
    /\ UNCHANGED <<reqvars, purevars, concvars>>

HasSubscription(id) ==
    /\ Idle
    /\ last' = [Call("has_subscription") EXCEPT
                    !.id = id, !.ret = has_subscription(clients, id)]
    /\ UNCHANGED <<clients, chans, reqvars, purevars, concvars>>

Subscribe(id, subscription) ==
    /\ Idle
    /\ clients' = subscribe(clients, id, subscription)
    /\ last' = [Call("subscribe") EXCEPT !.id = id, !.sub = subscription,
                                         !.ret = "void"]
    /\ UNCHANGED <<chans, reqvars, purevars, concvars>>

Publish(topic, message) ==
    /\ Idle
    /\ \A s \in DOMAIN chans : Len(chans[s].queue) < MaxQueue
    /\ \E order \in Orders(DOMAIN clients) :
          LET r == publish(clients, chans, order, topic, message)
          IN  /\ chans' = r.chans
              /\ last' = [Call("publish") EXCEPT !.topic = topic,
                                                   !.msg = message, !.ret = r.ret]
    /\ UNCHANGED <<clients, reqvars, purevars, concvars>>

\* The receiving half of channel s is closed or dropped.
CloseReceiver(s) ==
    /\ Idle
    /\ chans[s].open
    /\ chans' = [chans EXCEPT ![s].open = FALSE]
    /\ last' = [Call("close") EXCEPT !.sender = s]
    /\ UNCHANGED <<clients, reqvars, purevars, concvars>>

\* The caller has taken the result of its call; the record of the call is
\* dropped.
Return ==
    /\ ~Idle
    /\ last' = NoCall
    /\ UNCHANGED <<clients, chans, reqvars, purevars, concvars>>

Next ==
    \/ Return
    \/ \E id \in Ids : SetSender(id)
    \/ \E id \in Ids : HasSubscription(id)
    \/ \E id \in Ids, s \in Subscriptions : Subscribe(id, s)
    \/ \E t \in Topics, m \in PublishMessages : Publish(t, m)
    \/ \E s \in DOMAIN chans : CloseReceiver(s)

Spec == Init /\ [][Next]_vars

\* ------------------------------------------------- request/response steps
Stage == IF stages = <<>> THEN "Idle" ELSE stages[Len(stages)]

\* The connection loop reads the next inbound message once the previous
\* request has reached its terminal outcome.
Receive(message) ==
    /\ Stage \in {"Idle", "Responded", "Errored"}
    /\ Len(inbound) < MaxReq
    /\ inbound' = Append(inbound, message)
    /\ stages' = <<"Received">>
    /\ request' = <<>>
    /\ UNCHANGED <<submitted, transport, regvars, purevars, concvars>>

\* Received: the message is decoded into a Request; a decode failure is
\* answered with a BadRequest error that has no request_id.
Decode ==
    /\ Stage = "Received"
    /\ LET r == Request_try_from(inbound[Len(inbound)])
       IN  IF ~r.ok
           THEN /\ transport' = Append(transport,
                      LET out == WsError(bad_request_unknown("Failed to parse request"))
                      IN  [n |-> Len(inbound), out |-> out,
                           text |-> Ws_to_string(out)])
                /\ stages' = Append(stages, "Errored")
                /\ UNCHANGED request
           ELSE /\ request' = r.value
                /\ stages' = Append(stages, "Dispatched")
                /\ UNCHANGED transport
    /\ UNCHANGED <<inbound, submitted, regvars, purevars, concvars>>

\* Dispatched: the handler of the payload runs and its outputs are handed
\* to transport.
Handle(result) ==
    /\ Stage = "Dispatched"
    /\ LET h == handle_request(request, result)
       IN  /\ transport' = transport \o
                  [i \in 1..Len(h.out) |->
                      [n |-> Len(inbound), out |-> h.out[i],
                       text |-> Ws_to_string(h.out[i])]]
           /\ submitted' = IF h.submitted THEN submitted \cup {Len(inbound)}
                           ELSE submitted
           /\ stages' = Append(stages, IF h.out[Len(h.out)].kind = "Response"
                                       THEN "Responded" ELSE "Errored")
    /\ UNCHANGED <<inbound, request, regvars, purevars, concvars>>

ReqNext ==
    \/ \E m \in RawMessages : Receive(m)
    \/ Decode
    \/ \E r \in SubmitResults : Handle(r)

ReqSpec == Init /\ [][ReqNext]_vars

\* ----------------------------------------------------------------- claims
\* The entries of registry cl whose topic set contains topic.
Matching(cl, topic) == { id \in DOMAIN cl : topic \in cl[id].subscription.topics }

\* The matching entries that have a sender.
Attached(cl, topic) == { id \in Matching(cl, topic) : cl[id].sender # None }

\* The publish call just made was given a message that serializes.
Published == last.op = "publish" /\ last.msg.encodable

\* The queue of entry id's channel gained exactly one copy of the frame.
GotOne(id) ==
    chans[clients[id].sender].queue =
        Append(last.chans[clients[id].sender].queue, try_into(last.msg))

\* The queue of entry id's channel is as it was before the call.
GotNone(id) ==
    chans[clients[id].sender].queue = last.chans[clients[id].sender].queue

\* C1 as stated: publish(topic, m) with a serializable m enqueues exactly one
\* copy of m on the sender of every entry that is subscribed to topic and has
\* a sender, and nothing on the sender of an entry not subscribed to topic.
C1_Original ==
    Published =>
        \A id \in DOMAIN clients :
            clients[id].sender # None =>
                IF id \in Matching(clients, last.topic) THEN GotOne(id) ELSE GotNone(id)

\* C1 as amended: publish(topic, m) with a serializable m enqueues exactly one
\* copy of m on the sender of every entry that is subscribed to topic and has
\* a sender whose receiver is still open; it enqueues nothing on a sender whose
\* receiver is closed, nor on the sender of an entry not subscribed to topic.
C1_PublishDelivers ==
    Published =>
        \A id \in DOMAIN clients :
            clients[id].sender # None =>
                IF id \in Matching(clients, last.topic)
                      /\ last.chans[clients[id].sender].open
                THEN GotOne(id)
                ELSE GotNone(id)

\* C1 witness: a publish reached an open subscriber of the topic while another
\* attached entry was not subscribed to it.
C1_Witness ==
    /\ Published
    /\ \E a, b \in DOMAIN clients :
          /\ a \in Attached(clients, last.topic) /\ chans[clients[a].sender].open
          /\ b \notin Matching(clients, last.topic) /\ clients[b].sender # None
          /\ Len(chans[clients[a].sender].queue) = 1

\* C2: when matching subscribers have a closed channel, publish still enqueues
\* the message on every other matching attached subscriber, in whatever order
\* the entries are visited, and returns success.
C2_DeadSubscriberIgnored ==
    (Published /\ \E d \in Attached(clients, last.topic) :
                      ~last.chans[clients[d].sender].open)
    => /\ last.ret = "Ok"
       /\ \A id \in Attached(clients, last.topic) :
              last.chans[clients[id].sender].open => GotOne(id)

\* C2 witness: a publish met one closed and one open matching subscriber.
C2_Witness ==
    /\ Published
    /\ \E d, a \in Attached(clients, last.topic) :
          /\ ~last.chans[clients[d].sender].open
          /\ last.chans[clients[a].sender].open
          /\ Len(chans[clients[a].sender].queue) = 1

\* C3: after subscribe(id, s), has_subscription(id) is true, the entry under
\* id is exactly s with no sender, whatever was there before, and every other
\* entry is unchanged.
C3_SubscribeReplaces ==
    last.op = "subscribe" =>
        /\ has_subscription(clients, last.id)
        /\ clients[last.id] = [subscription |-> last.sub, sender |-> None]
        /\ DOMAIN clients = DOMAIN last.clients \cup {last.id}
        /\ \A x \in DOMAIN last.clients \ {last.id} : clients[x] = last.clients[x]

\* C3 witness: a subscribe replaced an attached entry that had another
\* subscription, next to a second entry.
C3_Witness ==
    /\ last.op = "subscribe"
    /\ last.id \in DOMAIN last.clients
    /\ last.clients[last.id].sender # None
    /\ last.clients[last.id].subscription.topics \ last.sub.topics # {}
    /\ DOMAIN clients \ {last.id} # {}

\* C4: set_sender with an unknown id returns false and changes nothing in the
\* registry; with a known id it returns true and the entry holds the sender.
C4_SetSender ==
    last.op = "set_sender" =>
        IF last.id \in DOMAIN last.clients
        THEN last.ret = TRUE /\ clients[last.id].sender = last.sender
        ELSE last.ret = FALSE /\ clients = last.clients

\* C4 witness: set_sender was refused for an unknown id in a registry that
\* holds another entry.
C4_Witness ==
    /\ last.op = "set_sender"
    /\ last.id \notin DOMAIN last.clients
    /\ DOMAIN last.clients # {}

\* C5 as stated: a publish whose message cannot be serialized returns an
\* error in every registry state, and no subscriber receives anything.
C5_Original ==
    (last.op = "publish" /\ ~last.msg.encodable)
        => last.ret = "Err" /\ chans = last.chans

\* C5 as amended: a publish whose message cannot be serialized returns an
\* error exactly when some entry, attached or not, is subscribed to the topic,
\* and success otherwise; in both cases no subscriber receives anything.
C5_SerializeError ==
    (last.op = "publish" /\ ~last.msg.encodable)
        => /\ last.ret = (IF Matching(clients, last.topic) # {} THEN "Err" ELSE "Ok")
           /\ chans = last.chans

\* C5 witness: an unserializable message was published to a topic whose only
\* subscribers are unattached, next to an attached entry of another topic.
C5_Witness ==
    /\ last.op = "publish" /\ ~last.msg.encodable
    /\ Matching(clients, last.topic) # {}
    /\ Attached(clients, last.topic) = {}
    /\ \E x \in DOMAIN clients : clients[x].sender # None

\* C6 as stated: once the entry under an id has a sender, no later operation
\* replaces that sender or returns the entry to the unattached state.
C6_Original ==
    ~Idle =>
        \A id \in DOMAIN last.clients :
            last.clients[id].sender # None =>
                id \in DOMAIN clients /\ clients[id].sender = last.clients[id].sender

\* C6 as amended: every entry is created unattached; the sender of an entry
\* is changed only by set_sender on its id, which stores the supplied sender,
\* or by subscribe on its id, which leaves the entry unattached.
C6_SenderChanges ==
    ~Idle =>
        /\ \A id \in DOMAIN clients \ DOMAIN last.clients : clients[id].sender = None
        /\ \A id \in DOMAIN clients \cap DOMAIN last.clients :
              clients[id].sender # last.clients[id].sender =>
                  \/ last.op = "set_sender" /\ last.id = id
                        /\ clients[id].sender = last.sender
                  \/ last.op = "subscribe" /\ last.id = id
                        /\ clients[id].sender = None

\* C6 witness: set_sender replaced the sender of an attached entry next to a
\* second entry.
C6_Witness ==
    /\ last.op = "set_sender"
    /\ last.id \in DOMAIN last.clients
    /\ last.clients[last.id].sender # None
    /\ clients[last.id].sender # last.clients[last.id].sender
    /\ DOMAIN clients \ {last.id} # {}

\* C7: entries are never removed: an id registered before a call is
\* registered after it, for every operation and every channel state.
C7_NeverRemoved ==
    [][\A id \in Ids : has_subscription(clients, id) => has_subscription(clients', id)]_vars

\* C7 witness: a publish met the closed channel of a subscriber, and the
\* subscriber is still registered.
C7_Witness ==
    /\ Published
    /\ \E d \in Attached(clients, last.topic) : ~chans[clients[d].sender].open
    /\ Cardinality(DOMAIN clients) = MaxIds

\* The outputs handed to transport for the k-th inbound message.
Outputs(k) == { i \in DOMAIN transport : transport[i].n = k }

\* The k-th inbound message has reached its terminal outcome.
Terminal(k) == k < Len(inbound) \/ Stage \in {"Responded", "Errored"}

\* C8: each inbound request goes Received -> Dispatched -> Responded or
\* Errored (an undecodable one goes from Received straight to Errored) and
\* has exactly one terminal outcome handed to transport: one Response or one
\* Error, never both and never more than one.
C8_OneOutcome ==
    /\ stages \in { <<>>, <<"Received">>, <<"Received", "Errored">>,
                    <<"Received", "Dispatched">>,
                    <<"Received", "Dispatched", "Responded">>,
                    <<"Received", "Dispatched", "Errored">> }
    /\ (Len(stages) = 2 /\ Stage = "Errored")
          => ~Request_try_from(inbound[Len(inbound)]).ok
    /\ \A k \in 1..Len(inbound) :
          Cardinality(Outputs(k)) = (IF Terminal(k) THEN 1 ELSE 0)
    /\ Stage \in {"Responded", "Errored"} =>
          \A i \in Outputs(Len(inbound)) :
              transport[i].out.kind = (IF Stage = "Responded" THEN "Response"
                                       ELSE "Error")

\* C8 witness: one request was answered with a Response and another with the
\* Error of its handler.
C8_Witness ==
    /\ Len(inbound) = 2
    /\ stages = <<"Received", "Dispatched", "Errored">>
    /\ \E i \in Outputs(1) : transport[i].out.kind = "Response"
    /\ \E i \in Outputs(2) : transport[i].out.kind = "Error"

\* C9: an Error built for a request whose request_id was parsed carries that
\* request_id, and an Error has no request_id only when the inbound message
\* could not be decoded into a Request.
C9_ErrorsCorrelated ==
    \A i \in DOMAIN transport :
        transport[i].out.kind = "Error" =>
            LET r == Request_try_from(inbound[transport[i].n])
            IN  transport[i].out.body.request_id =
                    (IF r.ok THEN r.value.request_id ELSE NoValue)

\* C10: a Submit request whose transaction payload (Data or Extrinsic) is
\* empty is never given to the submit handler; its one terminal outcome is an
\* Error with error_code BadRequest and the request's own request_id.
C10_EmptySubmitRejected ==
    \A k \in 1..Len(inbound) :
        LET r == Request_try_from(inbound[k])
        IN  (/\ r.ok
             /\ r.value.payload.variant = "Submit"
             /\ Len(r.value.payload.transaction.bytes) = 0)
            => /\ k \notin submitted
               /\ Terminal(k) => Cardinality(Outputs(k)) = 1
               /\ \A i \in Outputs(k) :
                     /\ transport[i].out.kind = "Error"
                     /\ transport[i].out.body.error_code = "bad-request"
                     /\ transport[i].out.body.request_id = r.value.request_id

\* C10 witness: an empty Data submit and an empty Extrinsic submit were both
\* answered.
C10_Witness ==
    /\ Len(inbound) = 2 /\ Terminal(2)
    /\ \A k \in 1..2 :
          /\ inbound[k].type = "submit" /\ inbound[k].request_id \in Uuids
          /\ inbound[k].message.message = ""
    /\ inbound[1].message.type = "data"
    /\ inbound[2].message.type = "extrinsic"

\* The outputs in transport that are InternalServerError errors.
InternalErrors ==
    { i \in DOMAIN transport :
        /\ transport[i].out.kind = "Error"
        /\ transport[i].out.body.error_code = "internal-server-error" }

\* The keys of a serialized object.
Keys(text) == { text[i][1] : i \in DOMAIN text }

\* C11: what a client gets of an InternalServerError does not depend on its
\* cause: any two such errors handed to transport have the same text, made
\* of the topic, the error code and the message only; the message is the
\* fixed text "Internal Server Error" and there is no cause field.
C11_CauseHidden ==
    \A i \in InternalErrors :
        /\ \A j \in InternalErrors : transport[i].text = transport[j].text
        /\ transport[i].text =
              << <<"topic", "error">>, <<"error_code", "internal-server-error">>,
                 <<"message", "Internal Server Error">> >>
        /\ transport[i].out.body.message = "Internal Server Error"
        /\ "cause" \notin Keys(transport[i].text)
        /\ \A k \in DOMAIN transport[i].text :
              transport[i].text[k][2] \notin Causes

\* C11 witness: two InternalServerError errors of different causes were handed
\* to transport.
C11_Witness ==
    \E i, j \in InternalErrors :
        transport[i].out.body.cause # transport[j].out.body.cause

\* ------------------------------------------------------------ conversions
\* Option::Some and Option::None of a configuration value
Some(value) == [some |-> TRUE, value |-> <<value>>]
NoOption == [some |-> FALSE, value |-> <<>>]

\* RuntimeConfig: the application id and the block matrix partition, each
\* configured or not.
AppIds == {0, 1}
Partitions == { <<1, 2>>, <<2, 2>> }
RuntimeConfigs ==
    [app_id : {NoOption} \cup { Some(a) : a \in AppIds },
     block_matrix_partition : {NoOption} \cup { Some(q) : q \in Partitions }]

\* The derivation of the modes that pushes Partition before App.
Modes_from_partition_first(value) ==
    <<"light">>
    \o (IF value.block_matrix_partition.some THEN <<"partition">> ELSE <<>>)
    \o (IF value.app_id.some THEN <<"app">> ELSE <<>>)

\* From<&RuntimeConfig> for Vec<Mode>
Modes_from(value) ==
    <<"light">>
    \o (IF value.app_id.some THEN <<"app">> ELSE <<>>)
    \o (IF value.block_matrix_partition.some THEN <<"partition">> ELSE <<>>)

\* config::COMMITMENT_SIZE, the number of bytes of a commitment.  It is 48 in
\* the program; the conversions treat every byte alike and the model takes a
\* small size.
COMMITMENT_SIZE == 2

\* The characters of hexadecimal text, by value.
Digits == <<"0", "1", "2", "3", "4", "5", "6", "7", "8", "9">>
LowerLetters == <<"a", "b", "c", "d", "e", "f">>
UpperLetters == <<"A", "B", "C", "D", "E", "F">>

Range(seq) == { seq[i] : i \in DOMAIN seq }
IndexOf(seq, c) == CHOOSE i \in DOMAIN seq : seq[i] = c

\* hex::decode's value of one character: Ok(0..15), or an error for a
\* character that is not a hexadecimal digit of either case.
hex_val(c) ==
    CASE c \in Range(Digits) -> Ok(IndexOf(Digits, c) - 1)
      [] c \in Range(LowerLetters) -> Ok(IndexOf(LowerLetters, c) + 9)
      [] c \in Range(UpperLetters) -> Ok(IndexOf(UpperLetters, c) + 9)
      [] OTHER -> Err("Invalid character")

\* hex::decode: two characters per byte.
hex_decode(data) ==
    IF Len(data) % 2 # 0
    THEN Err("Odd number of digits")
    ELSE IF \E i \in DOMAIN data : ~hex_val(data[i]).ok
    THEN Err("Invalid character")
    ELSE Ok([i \in 1..(Len(data) \div 2) |->
                16 * hex_val(data[2 * i - 1]).value + hex_val(data[2 * i]).value])

\* hex::encode: two lowercase characters per byte.
hex_encode(bytes) ==
    [i \in 1..(2 * Len(bytes)) |->
        LET b == bytes[(i + 1) \div 2]
            v == IF i % 2 = 1 THEN b \div 16 ELSE b % 16
        IN  IF v < 10 THEN Digits[v + 1] ELSE LowerLetters[v - 9]]

\* Serialize for Commitment
Commitment_serialize(bytes) == <<"0", "x">> \o hex_encode(bytes)

starts_with_0x(s) == Len(s) >= 2 /\ s[1] = "0" /\ s[2] = "x"

\* Deserialize for Commitment with the prefix and the length test joined by
\* "and": only a text failing both is turned away.
Commitment_deserialize_and(s) ==
    IF ~starts_with_0x(s) /\ Len(s) # COMMITMENT_SIZE * 2 + 2
    THEN Err("Expected a hex string of correct length with 0x prefix")
    ELSE LET decoded == hex_decode(SubSeq(s, 3, Len(s)))
         IN  IF ~decoded.ok THEN decoded
             ELSE IF Len(decoded.value) # COMMITMENT_SIZE
             THEN Err("invalid length")
             ELSE decoded

\* Deserialize for Commitment
Commitment_deserialize(s) ==
    IF ~starts_with_0x(s) \/ Len(s) # COMMITMENT_SIZE * 2 + 2
    THEN Err("Expected a hex string of correct length with 0x prefix")
    ELSE LET decoded == hex_decode(SubSeq(s, 3, Len(s)))
         IN  IF ~decoded.ok THEN decoded
             ELSE IF Len(decoded.value) # COMMITMENT_SIZE
             THEN Err("invalid length")
             ELSE decoded

\* The texts given to the deserializer: a prefix, right or wrong, then a
\* body of digits, lowercase and uppercase letters and a character that is
\* not hexadecimal, of the right length or near it.
Prefixes == { <<"0", "x">>, <<"0", "X">>, <<>> }
BodyChars == {"0", "a", "F", "g"}
SeqsOf(S, n) == [1..n -> S]
CommitmentTexts ==
    { pre \o body :
        pre \in Prefixes,
        body \in UNION { SeqsOf(BodyChars, n) :
                            n \in (2 * COMMITMENT_SIZE - 2)..(2 * COMMITMENT_SIZE + 1) } }

\* A conversion is about to be applied to an input.
PureInit ==
    /\ clients = <<>>
    /\ chans = <<>>
    /\ last = NoCall
    /\ inbound = <<>>
    /\ request = <<>>
    /\ stages = <<>>
    /\ submitted = {}
    /\ transport = <<>>
    /\ calls = <<>>
    /\ \/ \E config \in RuntimeConfigs :
             pure = [fn |-> "modes", arg |-> config, result |-> <<>>]
       \/ \E s \in CommitmentTexts :
             pure = [fn |-> "deserialize", arg |-> s, result |-> <<>>]

\* Status::new derives the modes of the configuration.
DeriveModes ==
    /\ pure.fn = "modes" /\ pure.result = <<>>
    /\ pure' = [pure EXCEPT !.result = Modes_from(pure.arg)]
    /\ UNCHANGED <<regvars, reqvars, concvars>>

\* A commitment text is deserialized.
DeserializeCommitment ==
    /\ pure.fn = "deserialize"
    /\ pure' = [fn |-> "deserialized", arg |-> pure.arg,
                result |-> Commitment_deserialize(pure.arg)]
    /\ UNCHANGED <<regvars, reqvars, concvars>>

\* A deserialized commitment is serialized again.
SerializeCommitment ==
    /\ pure.fn = "deserialized" /\ pure.result.ok
    /\ pure' = [fn |-> "serialized", arg |-> pure.arg,
                result |-> Commitment_serialize(pure.result.value)]
    /\ UNCHANGED <<regvars, reqvars, concvars>>

PureNext ==
    \/ DeriveModes
    \/ DeserializeCommitment
    \/ SerializeCommitment

PureSpec == PureInit /\ [][PureNext]_vars

\* C12: the modes derived from a configuration are Light first, then App
\* exactly when an app id is configured, then Partition exactly when a matrix
\* partition is configured, in that order, without duplicates, never empty.
C12_ModesOrder ==
    (pure.fn = "modes" /\ pure.result # <<>>) =>
        LET r == pure.result
            app == pure.arg.app_id.some
            part == pure.arg.block_matrix_partition.some
        IN  /\ Len(r) = 1 + (IF app THEN 1 ELSE 0) + (IF part THEN 1 ELSE 0)
            /\ r[1] = "light"
            /\ app => r[2] = "app"
            /\ part => r[Len(r)] = "partition"
            /\ \A i, j \in DOMAIN r : r[i] = r[j] => i = j

\* C12 witness: the modes of a configuration with an app id (the id 0) and a
\* partition were derived.
C12_Witness ==
    /\ pure.fn = "modes" /\ pure.result # <<>>
    /\ pure.arg.app_id = Some(0)
    /\ pure.arg.block_matrix_partition.some
    /\ Len(pure.result) = 3

\* The text s is the prefix 0x followed by characters of the set hex, and
\* has the length of a commitment text.
CommitmentForm(s, hex) ==
    /\ Len(s) = 2 * COMMITMENT_SIZE + 2
    /\ s[1] = "0" /\ s[2] = "x"
    /\ \A i \in 3..Len(s) : s[i] \in hex

Deserialized == pure.fn = "deserialized"

\* C13 as stated: deserializing a commitment succeeds exactly for the texts
\* made of 0x and lowercase hexadecimal digits with total length
\* 2 * COMMITMENT_SIZE + 2; every other text is a decode error.
C13_Original ==
    Deserialized =>
        (pure.result.ok <=>
            CommitmentForm(pure.arg, Range(Digits) \cup Range(LowerLetters)))

\* C13 as amended: deserializing a commitment succeeds exactly for the texts
\* made of 0x and hexadecimal digits of either case with total length
\* 2 * COMMITMENT_SIZE + 2, and yields COMMITMENT_SIZE bytes; every other
\* text (no prefix, wrong length, a character that is not hexadecimal) is a
\* decode error.
C13_Deserialize ==
    Deserialized =>
        /\ pure.result.ok <=>
              CommitmentForm(pure.arg, Range(Digits) \cup Range(LowerLetters)
                                           \cup Range(UpperLetters))
        /\ pure.result.ok => Len(pure.result.value) = COMMITMENT_SIZE

\* C13 witness: a text with uppercase and lowercase digits was deserialized
\* into bytes.
C13_Witness ==
    /\ Deserialized
    /\ pure.result.ok
    /\ \E i \in DOMAIN pure.arg : pure.arg[i] \in Range(UpperLetters)
    /\ \E i \in DOMAIN pure.arg : pure.arg[i] \in Range(LowerLetters)

\* The publish call just made found an entry subscribed to its topic that
\* has no sender.
SkippedOne ==
    last.op = "publish" /\ Matching(last.clients, last.topic) # Attached(last.clients, last.topic)

\* C18 as stated: a publish that finds a matching entry without a sender
\* returns success and buffers nothing; a sender attached later starts with
\* an empty queue and a queue only ever grows by a publish made while its
\* sender is attached to a matching entry.
C18_Original ==
    /\ SkippedOne => last.ret = "Ok"
    /\ ~Idle =>
          /\ \A s \in DOMAIN chans \ DOMAIN last.chans : chans[s].queue = <<>>
          /\ \A s \in DOMAIN last.chans :
                chans[s].queue # last.chans[s].queue =>
                    /\ last.op = "publish"
                    /\ \E id \in Attached(last.clients, last.topic) :
                          last.clients[id].sender = s

\* C18 as amended: a publish of a serializable message that finds a matching
\* entry without a sender returns success and buffers nothing for it; a sender
\* attached later starts with an empty queue (no replay), and a queue only
\* ever grows by a publish made while its sender is attached to a matching
\* entry.
C18_NoReplay ==
    /\ (SkippedOne /\ last.msg.encodable) => last.ret = "Ok"
    /\ ~Idle =>
          /\ \A s \in DOMAIN chans \ DOMAIN last.chans : chans[s].queue = <<>>
          /\ \A s \in DOMAIN last.chans :
                chans[s].queue # last.chans[s].queue =>
                    /\ last.op = "publish"
                    /\ \E id \in Attached(last.clients, last.topic) :
                          last.clients[id].sender = s

\* C18 witness: a sender was attached to an entry that an earlier publish had
\* reached: the other subscriber holds that message, the new sender's queue
\* is empty.
C18_Witness ==
    /\ last.op = "set_sender" /\ last.ret = TRUE
    /\ last.clients[last.id].sender = None
    /\ chans[last.sender].queue = <<>>
    /\ \E other \in DOMAIN clients \ {last.id} :
          /\ clients[other].sender # None
          /\ clients[other].subscription = clients[last.id].subscription
          /\ chans[clients[other].sender].queue # <<>>

\* C20: publish and has_subscription leave the registry map as it was: the
\* same keys, subscriptions and senders.  A successful set_sender(id, s)
\* changes the sender of entry id only: its topics and data fields and every
\* other entry are as before.
C20_Frame ==
    /\ last.op \in {"publish", "has_subscription"} => clients = last.clients
    /\ (last.op = "set_sender" /\ last.ret = TRUE) =>
          /\ DOMAIN clients = DOMAIN last.clients
          /\ clients[last.id].subscription = last.clients[last.id].subscription
          /\ clients[last.id].sender = last.sender
          /\ \A other \in DOMAIN clients \ {last.id} :
                clients[other] = last.clients[other]

\* C20 witness: a sender was attached to an entry that already had one, next
\* to another entry.
C20_Witness ==
    /\ last.op = "set_sender" /\ last.ret = TRUE
    /\ last.clients[last.id].sender # None
    /\ clients[last.id].sender # last.clients[last.id].sender
    /\ DOMAIN clients \ {last.id} # {}

\* ------------------------------------------------------ concurrent callers
\* Number of calls (registry operations and receiver drops) the concurrent
\* tasks make.
MaxCalls == 2

\* The subscription the entries of the initial registry hold.
Subscription1 == [topics |-> {"header-verified"}, data_fields |-> {"data"}]

\* The registries the tasks start from: the first ids are subscribed with
\* the sender of their own open channel, the next ones are subscribed without
\* a sender, the last ones are unknown.
Registries ==
    UNION { { [clients |-> [id \in 1..known |->
                              [subscription |-> Subscription1,
                               sender |-> IF id <= attached THEN id ELSE None]],
               chans |-> [s \in 1..attached |-> [queue |-> <<>>, open |-> TRUE]]]
              : attached \in 0..known }
            : known \in 0..MaxIds }

\* The topics the tasks publish on.
PublishTopics == {"header-verified", "data-verified"}

\* The message of the call numbered k: the header of block k.
MessagesOf(k) ==
    { [type |-> "header-verified", block_number |-> k, encodable |-> e] :
        e \in BOOLEAN }

NoSubscription == [topics |-> {}, data_fields |-> {}]
NoMessage == [type |-> "", block_number |-> 0, encodable |-> FALSE]

\* A call of a task that has asked for the registry lock: its operation and
\* arguments, where it stands (waiting for the lock, in its critical
\* section, done) and its result; for a publish also the registry as it was
\* when the lock was granted, the ids it has still to visit, and the
\* publishes that had returned when it started.
NewCall(op, id, sub, topic, msg) ==
    [op |-> op, id |-> id, sub |-> sub, topic |-> topic, msg |-> msg,
     pc |-> "waiting", snap |-> <<>>, todo |-> {}, ret |-> "pending",
     before |-> IF op = "publish"
                THEN { j \in DOMAIN calls :
                         calls[j].op = "publish" /\ calls[j].pc = "done" }
                ELSE {}]

ReadOps == {"publish", "has_subscription"}
WriteOps == {"subscribe", "set_sender"}

\* The calls holding the lock.
Inside(cs) == { j \in DOMAIN cs : cs[j].pc = "in" }

\* The lock is granted in the order it was asked for.
FirstWaiting(cs, k) ==
    cs[k].pc = "waiting" /\ \A j \in 1..(k - 1) : cs[j].pc # "waiting"

\* A write lock granted while readers hold the lock (a second read lock).
write_granted_shared(cs, k) ==
    FirstWaiting(cs, k) /\ \A j \in Inside(cs) : cs[j].op \in ReadOps

\* A write lock granted while publishes that do not deliver to the entry
\* hold the lock (a lock per entry).
write_granted_per_entry(cs, k) ==
    /\ FirstWaiting(cs, k)
    /\ \A j \in Inside(cs) :
          /\ cs[j].op = "publish"
          /\ \/ cs[k].id \notin DOMAIN cs[j].snap
             \/ cs[j].topic \notin cs[j].snap[cs[k].id].subscription.topics
             \/ cs[j].snap[cs[k].id].sender = None

\* self.0.write().await: granted when no call holds the lock.
write_granted(cs, k) ==
    FirstWaiting(cs, k) /\ Inside(cs) = {}

\* A read lock granted whoever holds the lock.
read_granted_always(cs, k) ==
    FirstWaiting(cs, k)

\* self.0.read().await: granted when no writer holds the lock.
read_granted(cs, k) ==
    FirstWaiting(cs, k) /\ \A j \in Inside(cs) : cs[j].op \in ReadOps

\* A channel of capacity one: a send waits while a message is queued.
has_capacity_bounded(ch, s) ==
    Len(ch[s].queue) < 1

\* mpsc::unbounded_channel: a send never waits for room.
has_capacity(ch, s) ==
    TRUE

\* The body of publish's loop for one client: whether it has to send.
publish_sends(client, topic, message) ==
    /\ is_subscribed(client, topic)
    /\ try_into(message) # SerializeError
    /\ client.sender # None

\* The tasks start from a registry with no call made yet.
ConcInit ==
    /\ \E r \in Registries : clients = r.clients /\ chans = r.chans
    /\ last = NoCall
    /\ inbound = <<>>
    /\ request = <<>>
    /\ stages = <<>>
    /\ submitted = {}
    /\ transport = <<>>
    /\ pure = NoConversion
    /\ calls = <<>>

\* A task calls an operation of the registry: it asks for the lock.
Start(op, id, sub, topic, msg) ==
    /\ Len(calls) < MaxCalls
    /\ calls' = Append(calls, NewCall(op, id, sub, topic, msg))
    /\ UNCHANGED <<clients, chans, last, reqvars, purevars>>

\* The lock is granted to call k; a publish starts its iteration over the
\* entries of the map.
Acquire(k) ==
    /\ k \in DOMAIN calls
    /\ IF calls[k].op \in WriteOps
       THEN write_granted(calls, k)
       ELSE read_granted(calls, k)
    /\ calls' = IF calls[k].op = "publish"
                THEN [calls EXCEPT ![k].pc = "in", ![k].snap = clients,
                                   ![k].todo = DOMAIN clients]
                ELSE [calls EXCEPT ![k].pc = "in"]
    /\ UNCHANGED <<clients, chans, last, reqvars, purevars>>

\* publish visits the next client of its iteration, any of those left
\* (HashMap::iter fixes no order); a serialization error ends the call and
\* releases the lock.
Visit(k, id) ==
    /\ k \in DOMAIN calls
    /\ calls[k].pc = "in" /\ id \in calls[k].todo
    /\ LET c == calls[k]
           client == clients[id]
       IN  IF is_subscribed(client, c.topic) /\ try_into(c.msg) = SerializeError
           THEN /\ calls' = [calls EXCEPT ![k].pc = "done", ![k].ret = "Err"]
                /\ UNCHANGED chans
           ELSE /\ calls' = [calls EXCEPT ![k].todo = c.todo \ {id}]
                /\ IF publish_sends(client, c.topic, c.msg)
                   THEN /\ has_capacity(chans, client.sender)
                        /\ chans' = send(chans, client.sender, try_into(c.msg)).chans
                   ELSE UNCHANGED chans
    /\ UNCHANGED <<clients, last, reqvars, purevars>>

\* Call k does what is left of its critical section, releases the lock and
\* returns.
Finish(k) ==
    /\ k \in DOMAIN calls
    /\ calls[k].pc = "in" /\ calls[k].todo = {}
    /\ LET c == calls[k]
       IN  CASE c.op = "subscribe" ->
                  /\ clients' = subscribe(clients, c.id, c.sub)
                  /\ calls' = [calls EXCEPT ![k].pc = "done", ![k].ret = "void"]
                  /\ UNCHANGED chans
             [] c.op = "set_sender" ->
                  LET r == set_sender(clients, c.id, Len(chans) + 1)
                  IN  /\ clients' = r.clients
                      /\ chans' = IF r.ret
                                  THEN Append(chans, [queue |-> <<>>, open |-> TRUE])
                                  ELSE chans
                      /\ calls' = [calls EXCEPT ![k].pc = "done",
                                       ![k].ret = IF r.ret THEN "true" ELSE "false"]
             [] c.op = "has_subscription" ->
                  /\ calls' = [calls EXCEPT ![k].pc = "done",
                                   ![k].ret = IF has_subscription(clients, c.id)
                                              THEN "true" ELSE "false"]
                  /\ UNCHANGED <<clients, chans>>
             [] c.op = "publish" ->
                  /\ calls' = [calls EXCEPT ![k].pc = "done", ![k].ret = "Ok"]
                  /\ UNCHANGED <<clients, chans>>
    /\ UNCHANGED <<last, reqvars, purevars>>

\* A task closes or drops the receiving half of channel s, whatever the
\* other tasks are doing; it takes no lock.
Disconnect(s) ==
    /\ Len(calls) < MaxCalls
    /\ chans[s].open
    /\ chans' = [chans EXCEPT ![s].open = FALSE]
    /\ calls' = Append(calls, [NewCall("close", s, NoSubscription, "", NoMessage)
                                  EXCEPT !.pc = "done", !.ret = "void"])
    /\ UNCHANGED <<clients, last, reqvars, purevars>>

ConcNext ==
    \/ \E id \in Ids, s \in Subscriptions :
          Start("subscribe", id, s, "", NoMessage)
    \/ \E id \in Ids : Start("set_sender", id, NoSubscription, "", NoMessage)
    \/ \E id \in Ids : Start("has_subscription", id, NoSubscription, "", NoMessage)
    \/ \E t \in PublishTopics, m \in MessagesOf(Len(calls) + 1) :
          Start("publish", 0, NoSubscription, t, m)
    \/ \E k \in 1..MaxCalls : Acquire(k)
    \/ \E k \in 1..MaxCalls, id \in Ids : Visit(k, id)
    \/ \E k \in 1..MaxCalls : Finish(k)
    \/ \E s \in DOMAIN chans : Disconnect(s)

ConcSpec == ConcInit /\ [][ConcNext]_vars

\* The steps of call k once it has asked for the lock.
Step(k) == Acquire(k) \/ (\E id \in Ids : Visit(k, id)) \/ Finish(k)

\* The runtime keeps polling every task, and the lock is granted in the order
\* it was asked for: a call whose next step stays possible takes it.
FairConcSpec == ConcSpec /\ \A k \in 1..MaxCalls : WF_vars(Step(k))

\* The calls of the operations ops that are in their critical section.
InCriticalSection(ops) ==
    { k \in DOMAIN calls : calls[k].pc = "in" /\ calls[k].op \in ops }

\* C14: a subscribe or set_sender is never in its critical section while a
\* publish is iterating, a has_subscription is reading or another mutation is
\* in its critical section; publishes and has_subscription reads may be in
\* their critical sections together.
C14_MutualExclusion ==
    \A w \in InCriticalSection({"subscribe", "set_sender"}) :
        \A k \in DOMAIN calls : calls[k].pc = "in" => k = w

\* C14 witness: a publish that has visited part of the map and a
\* has_subscription are in their critical sections together.
C14_Witness ==
    \E p \in InCriticalSection({"publish"}), h \in InCriticalSection({"has_subscription"}) :
        /\ calls[p].todo # {}
        /\ calls[p].todo # DOMAIN clients

\* The mutation w is on an id that publish p is not delivering to.
Unrelated(w, p) ==
    \/ calls[w].id \notin DOMAIN calls[p].snap
    \/ calls[p].topic \notin calls[p].snap[calls[w].id].subscription.topics
    \/ calls[p].snap[calls[w].id].sender = None

\* The subscribe and set_sender calls that are next in line for the lock
\* while publishes, none of them delivering to their id, are iterating.
NextBehindPublish ==
    { w \in DOMAIN calls :
        /\ calls[w].op \in {"subscribe", "set_sender"}
        /\ calls[w].pc = "waiting"
        /\ \A j \in 1..(w - 1) : calls[j].pc # "waiting"
        /\ InCriticalSection({"publish"}) # {}
        /\ \A p \in DOMAIN calls :
              calls[p].pc = "in" => calls[p].op = "publish" /\ Unrelated(w, p) }

\* C15 as stated: while a publish is iterating, a subscribe or set_sender on
\* an id the publish is not delivering to can go on without waiting for the
\* publish to finish.
C15_Original ==
    \A w \in NextBehindPublish : ENABLED Acquire(w)

\* C15 as amended: while a publish is iterating, a subscribe or set_sender,
\* also one on an id the publish is not delivering to, cannot enter its
\* critical section: it waits until the publish has released the lock.
C15_MutationWaits ==
    \A w \in DOMAIN calls :
        (/\ calls[w].op \in {"subscribe", "set_sender"}
         /\ calls[w].pc = "waiting"
         /\ InCriticalSection({"publish"}) # {}) => ~ENABLED Acquire(w)

\* C15 witness: a set_sender or subscribe on an id the publish does not
\* deliver to is next in line while the publish, having delivered to a
\* subscriber, has part of the map left to visit.
C15_Witness ==
    \E w \in NextBehindPublish :
        \E p \in InCriticalSection({"publish"}) :
            /\ calls[p].todo # {}
            /\ \E s \in DOMAIN chans : chans[s].queue # <<>>

\* The frame of publish call p, and the number of its copies in channel s.
FrameOf(p) ==
    [text |-> <<"type", calls[p].msg.type, "message", "block_number",
                calls[p].msg.block_number>>]

Copies(s, p) ==
    Cardinality({ i \in DOMAIN chans[s].queue : chans[s].queue[i] = FrameOf(p) })

\* Channel s is the sender of an entry that was subscribed to the topic of
\* publish p when p was granted the lock.
Target(s, p) ==
    \E id \in Attached(calls[p].snap, calls[p].topic) : calls[p].snap[id].sender = s

Publishes(pcs) ==
    { p \in DOMAIN calls : calls[p].op = "publish" /\ calls[p].pc \in pcs }

\* C16 as stated: the recipients of a publish are exactly the matching
\* attached subscribers of the registry as it was when the publish was granted
\* the lock: each of them got the message, once, and no other channel did.
C16_Original ==
    \A p \in Publishes({"done"}) :
        \A s \in DOMAIN chans :
            Copies(s, p) = IF Target(s, p) THEN 1 ELSE 0

\* C16 as amended: the recipients of a publish of a serializable message are
\* exactly the matching attached subscribers, of the registry as it was when
\* the publish was granted the lock, whose receiver was still open when the
\* publish reached them: a channel that is still open got the message once, a
\* closed one at most once, and no other channel (of an entry added, attached
\* or subscribed again later) got it; an unserializable message reaches nobody.
C16_Snapshot ==
    \A p \in Publishes({"in", "done"}) :
        \A s \in DOMAIN chans :
            /\ Copies(s, p) <= IF Target(s, p) /\ calls[p].msg.encodable THEN 1 ELSE 0
            /\ (/\ calls[p].pc = "done" /\ calls[p].msg.encodable
                /\ Target(s, p) /\ chans[s].open) => Copies(s, p) = 1

\* C16 witness: a publish delivered its message to a subscriber; an entry
\* matching its topic was attached after the publish was granted the lock, and
\* its new channel did not get the message.
C16_Witness ==
    \E p \in Publishes({"done"}) :
        /\ \E s \in DOMAIN chans : Copies(s, p) = 1
        /\ \E id \in Attached(clients, calls[p].topic) :
              /\ ~Target(clients[id].sender, p)
              /\ Copies(clients[id].sender, p) = 0

\* C17: under fair granting of the lock every call that was started returns,
\* whatever the other callers do and whatever the state of the channels: no
\* call waits for a consumer and no call waits for ever for the lock.  A call
\* that has returned stays so: from some moment on every call that was
\* started has returned.
C17_Returns ==
    <>[](\A k \in DOMAIN calls : calls[k].pc = "done")

\* C17 witness: every call the tasks may make has returned, among them a
\* publish that enqueued its message on a channel nobody reads from and a
\* mutation of the registry.
C17_Witness ==
    /\ Len(calls) = MaxCalls
    /\ \A k \in DOMAIN calls : calls[k].pc = "done"
    /\ \E p \in Publishes({"done"}) : \E s \in DOMAIN chans : Copies(s, p) = 1
    /\ \E w \in DOMAIN calls : calls[w].op \in {"subscribe", "set_sender"}

\* The number of the publish call that enqueued a frame.
CallOf(frame) == frame.text[5]

\* C19: if a publish returned before another one started, a channel that
\* holds the messages of both holds the first one's before the second one's.
C19_Fifo ==
    \A s \in DOMAIN chans :
        \A i, j \in DOMAIN chans[s].queue :
            i < j => CallOf(chans[s].queue[j]) \notin calls[CallOf(chans[s].queue[i])].before

\* C19 witness: a publish started after another one had returned, and a
\* subscriber's channel holds the messages of both.
C19_Witness ==
    \E a, b \in Publishes({"done"}) :
        /\ a \in calls[b].before
        /\ \E s \in DOMAIN chans : Copies(s, a) = 1 /\ Copies(s, b) = 1

====
